---------------------------- MODULE Spec2Model ----------------------------
(***************************************************************************)
(* Model of the fund chatbot: FundDataAnalyzer (aggregations over the      *)
(* holdings and trades tables) and FundChatbot (fund-name detection, topic *)
(* classification, context composition, the single completion call).       *)
(*                                                                         *)
(* Text is modelled as a sequence of one-character strings, so that        *)
(* str.lower(), the `in` substring test and sorted() are computed on the   *)
(* characters as Python computes them.                                     *)
(***************************************************************************)
EXTENDS Integers, Sequences, FiniteSets, TLC

VARIABLES holdings_df, trades_df, chatbot, pc, ret, invocations,
          messages, chatbot_initialized

vars == <<holdings_df, trades_df, chatbot, pc, ret, invocations,
          messages, chatbot_initialized>>

\* The chat page's st.session_state entries besides the analyzer and chatbot.
session == <<messages, chatbot_initialized>>

(***************************************************************************)
(* Python values                                                           *)
(***************************************************************************)

\* Python's None where a str is expected; no text equals it, since every
\* element of a text is a single character.
None == <<"None">>

\* bool(x) of an Optional[str]: None and "" are falsy.
Truthy(x) == x # None /\ x # <<>>

\* The characters used by the model, in code-point order.
Alphabet ==
  << " ", "&", "A", "B", "C", "D", "E", "F", "G", "H", "I", "J", "K", "L", "M", "N", "O", "P", "Q", "R", "S", "T", "U", "V", "W", "X", "Y", "Z", "a", "b", "c", "d", "e", "f", "g", "h", "i", "j", "k", "l", "m", "n", "o", "p", "q", "r", "s", "t", "u", "v", "w", "x", "y", "z" >>


\* ord(c), up to the characters the model leaves out: the position in Alphabet.
OrdOf == [c \in {Alphabet[i] : i \in DOMAIN Alphabet} |->
            CHOOSE i \in DOMAIN Alphabet : Alphabet[i] = c]

Ord(c) == OrdOf[c]

\* str.lower() on one character: "A".."Z" sit at 3..28, "a".."z" at 29..54.
LowerOf == [c \in DOMAIN OrdOf |->
              IF OrdOf[c] >= 3 /\ OrdOf[c] <= 28 THEN Alphabet[OrdOf[c] + 26] ELSE c]

LowerChar(c) == LowerOf[c]

lower(s) == [i \in 1..Len(s) |-> LowerChar(s[i])]

\* needle in hay
Contains(needle, hay) ==
  \E i \in 0..(Len(hay) - Len(needle)) :
     SubSeq(hay, i + 1, i + Len(needle)) = needle

\* a < b on str: the first differing character decides, a proper prefix is
\* smaller.
StrLess(a, b) ==
  \E k \in 1..(Len(b)) :
     /\ \A j \in 1..(k - 1) : j <= Len(a) /\ a[j] = b[j]
     /\ \/ k = Len(a) + 1
        \/ k <= Len(a) /\ Ord(a[k]) < Ord(b[k])

RECURSIVE sorted(_)
\* sorted(list(S)) for a set of str
sorted(S) ==
  IF S = {} THEN <<>>
  ELSE LET m == CHOOSE x \in S : \A y \in S : x = y \/ StrLess(x, y)
       IN  <<m>> \o sorted(S \ {m})

Range(seq) == {seq[i] : i \in DOMAIN seq}

RECURSIVE Filter(_, _)
\* df[df['PortfolioName'] == fund_name]: the matching rows, in row order
Filter(rows, fund_name) ==
  IF rows = <<>> THEN <<>>
  ELSE (IF Head(rows).PortfolioName = fund_name THEN <<Head(rows)>> ELSE <<>>)
       \o Filter(Tail(rows), fund_name)

RECURSIVE SumCol(_, _)
\* rows[col].sum()
SumCol(rows, col) ==
  IF rows = <<>> THEN 0 ELSE Head(rows)[col] + SumCol(Tail(rows), col)

RECURSIVE UniqueList(_, _)
\* rows[col].unique().tolist(): distinct values in first-seen order
UniqueList(rows, col) ==
  IF rows = <<>> THEN <<>>
  ELSE LET init == UniqueList(SubSeq(rows, 1, Len(rows) - 1), col)
           v    == rows[Len(rows)][col]
       IN  IF v \in Range(init) THEN init ELSE Append(init, v)

\* rows[col].nunique()
NUnique(rows, col) == Cardinality({rows[i][col] : i \in DOMAIN rows})

\* rows['AsOfDate'].max(); dates are day numbers >= 1
MaxDate(rows) ==
  CHOOSE d \in {rows[i].AsOfDate : i \in DOMAIN rows} :
     \A i \in DOMAIN rows : rows[i].AsOfDate <= d

\* None in the 'AsOfDate' entry of a fund summary
NoDate == 0

(***************************************************************************)
(* Fund names and the tables the model is run on                           *)
(***************************************************************************)

F_Alpha == <<"A", "l", "p", "h", "a">>
F_Beta == <<"B", "e", "t", "a">>
F_Delta == <<"D", "e", "l", "t", "a">>
F_Gamma == <<"G", "a", "m", "m", "a">>
F_Growth == <<"G", "r", "o", "w", "t", "h">>
F_GrowthPlus == <<"G", "r", "o", "w", "t", "h", " ", "P", "l", "u", "s">>
F_Omega == <<"O", "m", "e", "g", "a">>
F_Sigma == <<"S", "i", "g", "m", "a">>

FundUniverse ==
  <<F_Growth, F_Alpha, F_GrowthPlus, F_Omega, F_Beta, F_Gamma, F_Delta, F_Sigma>>

HoldingsColumns ==
  {"PortfolioName", "SecurityId", "SecName", "SecurityTypeName", "CustodianName",
   "Qty", "MV_Base", "PL_YTD", "AsOfDate"}

TradesColumns == {"PortfolioName", "Name", "Ticker"}

Holding(fund, sec, type, cust, qty, mv, pl, date) ==
  [PortfolioName |-> fund, SecurityId |-> sec, SecName |-> "sec",
   SecurityTypeName |-> type, CustodianName |-> cust, Qty |-> qty,
   MV_Base |-> mv, PL_YTD |-> pl, AsOfDate |-> date]

Trade(fund) == [PortfolioName |-> fund, Name |-> "name", Ticker |-> "TCK"]

SeqsUpTo(S, n) == UNION {[1..k -> S] : k \in 0..n}

\* Bounds of the tables the analyzer operations are run on.
MaxHoldings == 3
MaxTrades == 2
\* Bound of the per-fund tables the context is composed from.
MaxFunds == 6
\* Bound of the top_n passed to get_top_securities.
MaxTopN == 2
\* Bound of the questions: words per question.
MaxWords == 2
\* Bound of the per-fund tables the answer service is run on.
MaxServiceFunds == 2

HoldingRows ==
  { Holding(F_Alpha,  1, "Equity", "CustA", 1, 2,  1, 1),
    Holding(F_Alpha,  2, "Bond",   "CustB", 1, 1,  0, 2),
    Holding(F_Beta,   1, "Equity", "CustA", 2, 2,  1, 1),
    Holding(F_Growth, 3, "Bond",   "CustB", 1, 1, -1, 2) }

TradeRows == { Trade(F_Alpha), Trade(F_GrowthPlus) }

Min(a, b) == IF a < b THEN a ELSE b

\* A holdings table with one row for each of the first n funds of the universe;
\* the first two funds have equal PL_YTD.
WideHoldings(n) ==
  [i \in 1..Min(n, Len(FundUniverse)) |->
     Holding(FundUniverse[i], i, IF i % 2 = 0 THEN "Bond" ELSE "Equity",
             IF i % 3 = 0 THEN "CustB" ELSE "CustA", 1, i,
             IF i <= 2 THEN 10 ELSE i - 4, i)]

\* Its trades table: one trade of fund n (held too) and one of fund n + 1 (not held).
WideTrades(n) ==
  LET ks == {k \in {n, n + 1} : k >= 1 /\ k <= Len(FundUniverse)}
  IN  IF ks = {} THEN <<>>
      ELSE [i \in 1..Cardinality(ks) |->
              Trade(FundUniverse[IF n \in ks THEN n + i - 1 ELSE n + i])]

\* df.drop(columns=...) seen from the loader: the rows restricted to the columns.
Restrict(rows, columns) ==
  [i \in DOMAIN rows |-> [c \in columns |-> rows[i][c]]]

(***************************************************************************)
(* FundDataAnalyzer                                                        *)
(***************************************************************************)

\* set(df['PortfolioName'].unique())
FundsOf(df) == {df.rows[i].PortfolioName : i \in DOMAIN df.rows}

\* df['PortfolioName'].value_counts().to_dict(): one key per fund that has a
\* row in the table (the order of the keys is not modelled).
value_counts(df) ==
  [f \in FundsOf(df) |-> Len(Filter(df.rows, f))]

get_holdings_count_by_fund(fund_name) ==
  IF Truthy(fund_name)
  THEN [f \in {fund_name} |-> Len(Filter(holdings_df.rows, fund_name))]
  ELSE value_counts(holdings_df)

get_trades_count_by_fund(fund_name) ==
  IF Truthy(fund_name)
  THEN [f \in {fund_name} |-> Len(Filter(trades_df.rows, fund_name))]
  ELSE value_counts(trades_df)

\* get_all_funds that forgets the trades table.
get_all_funds_holdings_only == sorted(FundsOf(holdings_df))

get_all_funds ==
  LET holdings_funds == FundsOf(holdings_df)
      trades_funds   == FundsOf(trades_df)
  IN  sorted(holdings_funds \cup trades_funds)

\* holdings_df.groupby('PortfolioName').agg(sum).reset_index(): one row per
\* fund of holdings, in sorted key order (groupby sorts the group keys).
groupby_agg ==
  LET keys == sorted(FundsOf(holdings_df))
  IN  [i \in DOMAIN keys |->
        LET g == Filter(holdings_df.rows, keys[i])
        IN  [Fund               |-> keys[i],
             Total_PL_YTD       |-> SumCol(g, "PL_YTD"),
             Total_Market_Value |-> SumCol(g, "MV_Base"),
             Total_Quantity     |-> SumCol(g, "Qty")]]

RECURSIVE SortedDescending(_)
\* The sequences over the set S of rows that are in descending Total_PL_YTD order.
SortedDescending(S) ==
  IF S = {} THEN {<<>>}
  ELSE LET top == {r \in S : \A o \in S : o.Total_PL_YTD <= r.Total_PL_YTD}
       IN  UNION {{<<m>> \o rest : rest \in SortedDescending(S \ {m})} : m \in top}

\* frame.sort_values('PL_YTD', ascending=False): kind defaults to 'quicksort',
\* which is not a stable sort, so the order of rows with equal PL_YTD is
\* whatever the installed sort produces: every descending order is an outcome.
sort_values(frame) == SortedDescending(Range(frame))

\* The frames get_fund_performance can return.
get_fund_performance == sort_values(groupby_agg)

get_fund_summary(fund_name) ==
  LET holdings == Filter(holdings_df.rows, fund_name)
      trades   == Filter(trades_df.rows, fund_name)
  IN  [Fund_Name          |-> fund_name,
       Total_Holdings     |-> Len(holdings),
       Total_Trades       |-> Len(trades),
       Total_PL_YTD       |-> IF Len(holdings) > 0 THEN SumCol(holdings, "PL_YTD") ELSE 0,
       Total_Market_Value |-> IF Len(holdings) > 0 THEN SumCol(holdings, "MV_Base") ELSE 0,
       Unique_Securities  |-> IF Len(holdings) > 0 THEN NUnique(holdings, "SecurityId") ELSE 0,
       Custodians         |-> IF Len(holdings) > 0 THEN UniqueList(holdings, "CustodianName") ELSE <<>>,
       AsOfDate           |-> IF Len(holdings) > 0 THEN MaxDate(holdings) ELSE NoDate]

RECURSIVE SumValues(_)
\* sum(counts.values())
SumValues(counts) ==
  IF DOMAIN counts = {} THEN 0
  ELSE LET k == CHOOSE k \in DOMAIN counts : TRUE
       IN  counts[k] + SumValues([j \in DOMAIN counts \ {k} |-> counts[j]])

\* get_data_overview, given the frame its get_fund_performance() call returned.
\* 'top_performer' and 'worst_performer' are keys only when the frame has rows;
\* here they are then the empty sequence.
get_data_overview(performance) ==
  LET all_funds       == get_all_funds
      holdings_counts == get_holdings_count_by_fund(None)
      trades_counts   == get_trades_count_by_fund(None)
  IN  [total_funds         |-> Len(all_funds),
       funds               |-> all_funds,
       total_holdings      |-> SumValues(holdings_counts),
       total_trades        |-> SumValues(trades_counts),
       holdings_by_fund    |-> holdings_counts,
       trades_by_fund      |-> trades_counts,
       performance_summary |-> performance,
       top_performer       |-> IF Len(performance) > 0 THEN <<performance[1]>> ELSE <<>>,
       worst_performer     |-> IF Len(performance) > 0 THEN <<performance[Len(performance)]>> ELSE <<>>]

\* get_custodian_summary: per custodian the totals and the number of distinct
\* funds (the list of records is modelled as a mapping keyed by custodian).
get_custodian_summary ==
  LET names == {holdings_df.rows[i].CustodianName : i \in DOMAIN holdings_df.rows}
      Of(c) == SelectSeq(holdings_df.rows, LAMBDA r : r.CustodianName = c)
  IN  [c \in names |->
         [Total_Market_Value |-> SumCol(Of(c), "MV_Base"),
          Total_PL_YTD       |-> SumCol(Of(c), "PL_YTD"),
          Number_of_Funds    |-> NUnique(Of(c), "PortfolioName")]]

\* get_security_type_summary: {} when the column is missing, else per type the
\* totals (the list of records is modelled as a mapping keyed by type).
get_security_type_summary ==
  IF "SecurityTypeName" \notin holdings_df.columns THEN <<>>
  ELSE LET names == {holdings_df.rows[i].SecurityTypeName : i \in DOMAIN holdings_df.rows}
           Of(t) == SelectSeq(holdings_df.rows, LAMBDA r : r.SecurityTypeName = t)
       IN  [t \in names |->
              [Total_Market_Value |-> SumCol(Of(t), "MV_Base"),
               Total_PL_YTD       |-> SumCol(Of(t), "PL_YTD"),
               Unique_Securities  |-> NUnique(Of(t), "SecurityId")]]

RECURSIVE nlargest_keep_last(_, _)
\* nlargest that takes the last of the rows of equal MV_Base first.
nlargest_keep_last(rows, top_n) ==
  IF top_n <= 0 \/ rows = <<>> THEN <<>>
  ELSE LET i == CHOOSE i \in DOMAIN rows :
                  /\ \A j \in DOMAIN rows : rows[j].MV_Base <= rows[i].MV_Base
                  /\ \A j \in (i + 1)..Len(rows) : rows[j].MV_Base < rows[i].MV_Base
       IN  <<rows[i]>>
           \o nlargest_keep_last(SubSeq(rows, 1, i - 1) \o SubSeq(rows, i + 1, Len(rows)),
                                 top_n - 1)

RECURSIVE nlargest(_, _)
\* df.nlargest(top_n, 'MV_Base'): the top_n rows by MV_Base, largest first,
\* rows of equal MV_Base in row order (keep='first').
nlargest(rows, top_n) ==
  IF top_n <= 0 \/ rows = <<>> THEN <<>>
  ELSE LET i == CHOOSE i \in DOMAIN rows :
                  /\ \A j \in DOMAIN rows : rows[j].MV_Base <= rows[i].MV_Base
                  /\ \A j \in 1..(i - 1) : rows[j].MV_Base < rows[i].MV_Base
       IN  <<rows[i]>>
           \o nlargest(SubSeq(rows, 1, i - 1) \o SubSeq(rows, i + 1, Len(rows)), top_n - 1)

TopColumns == {"SecName", "SecurityId", "MV_Base", "PL_YTD", "Qty", "PortfolioName"}

get_top_securities(fund_name, top_n) ==
  LET df == IF Truthy(fund_name) THEN Filter(holdings_df.rows, fund_name)
            ELSE holdings_df.rows
  IN  Restrict(nlargest(df, top_n), TopColumns)

(***************************************************************************)
(* FundChatbot                                                             *)
(***************************************************************************)

NoChatbot == [constructed |-> FALSE, api_key |-> "None", llm |-> "None"]

\* FundChatbot.__init__: os.environ[...] = None raises TypeError, and so may
\* ChatGroq(...); either way the except branch leaves llm = None.
FundChatbot(api_key, groq_ok) ==
  [constructed |-> TRUE,
   api_key     |-> api_key,
   llm         |-> IF api_key # "None" /\ groq_ok THEN "ChatGroq" ELSE "None"]

\* _extract_fund_name that keeps scanning and returns the last match.
_extract_fund_name_last(question) ==
  LET funds          == get_all_funds
      question_lower == lower(question)
      hits == {i \in DOMAIN funds : Contains(lower(funds[i]), question_lower)}
  IN  IF hits = {} THEN None
      ELSE funds[CHOOSE i \in hits : \A j \in hits : i >= j]

\* The first fund of the sorted list whose lower-cased name is in the
\* lower-cased question.
_extract_fund_name(question) ==
  LET funds          == get_all_funds
      question_lower == lower(question)
      hits == {i \in DOMAIN funds : Contains(lower(funds[i]), question_lower)}
  IN  IF hits = {} THEN None
      ELSE funds[CHOOSE i \in hits : \A j \in hits : i <= j]

keywords ==
  [ holdings |->
      << <<"h", "o", "l", "d", "i", "n", "g">>,
         <<"h", "o", "l", "d", "i", "n", "g", "s">>,
         <<"p", "o", "s", "i", "t", "i", "o", "n">>,
         <<"p", "o", "s", "i", "t", "i", "o", "n", "s">>,
         <<"s", "e", "c", "u", "r", "i", "t", "y">>,
         <<"s", "e", "c", "u", "r", "i", "t", "i", "e", "s">>,
         <<"a", "s", "s", "e", "t">>,
         <<"a", "s", "s", "e", "t", "s">> >>,
    trades |->
      << <<"t", "r", "a", "d", "e">>,
         <<"t", "r", "a", "d", "e", "s">>,
         <<"t", "r", "a", "n", "s", "a", "c", "t", "i", "o", "n">>,
         <<"t", "r", "a", "n", "s", "a", "c", "t", "i", "o", "n", "s">>,
         <<"e", "x", "e", "c", "u", "t", "i", "o", "n">>,
         <<"e", "x", "e", "c", "u", "t", "i", "o", "n", "s">> >>,
    performance |->
      << <<"p", "e", "r", "f", "o", "r", "m", "a", "n", "c", "e">>,
         <<"p", "r", "o", "f", "i", "t">>,
         <<"l", "o", "s", "s">>,
         <<"p", "&", "l">>,
         <<"p", "l">>,
         <<"y", "t", "d">>,
         <<"r", "e", "t", "u", "r", "n">>,
         <<"r", "e", "t", "u", "r", "n", "s">>,
         <<"g", "a", "i", "n">>,
         <<"l", "o", "s", "s", "e", "s">> >>,
    custodian |->
      << <<"c", "u", "s", "t", "o", "d", "i", "a", "n">>,
         <<"c", "u", "s", "t", "o", "d", "i", "a", "n", "s">>,
         <<"b", "a", "n", "k">>,
         <<"b", "a", "n", "k", "s">> >>,
    security_type |->
      << <<"t", "y", "p", "e">>,
         <<"t", "y", "p", "e", "s">>,
         <<"c", "a", "t", "e", "g", "o", "r", "y">>,
         <<"c", "a", "t", "e", "g", "o", "r", "i", "e", "s">>,
         <<"c", "l", "a", "s", "s">>,
         <<"c", "l", "a", "s", "s", "e", "s">> >>,
    top |->
      << <<"t", "o", "p">>,
         <<"b", "e", "s", "t">>,
         <<"l", "a", "r", "g", "e", "s", "t">>,
         <<"h", "i", "g", "h", "e", "s", "t">>,
         <<"b", "i", "g", "g", "e", "s", "t">> >>,
    summary |->
      << <<"s", "u", "m", "m", "a", "r", "y">>,
         <<"o", "v", "e", "r", "v", "i", "e", "w">>,
         <<"d", "e", "t", "a", "i", "l", "s">>,
         <<"i", "n", "f", "o", "r", "m", "a", "t", "i", "o", "n">>,
         <<"i", "n", "f", "o">> >> ]

\* any(kw in question_lower for kw in kws)
any_kw(question_lower, kws) ==
  \E i \in DOMAIN kws : Contains(kws[i], question_lower)

\* The seven include_* flags as the keyword scan sets them.
keyword_flags(question) ==
  LET question_lower == lower(question)
  IN  [include_holdings      |-> any_kw(question_lower, keywords.holdings),
       include_trades        |-> any_kw(question_lower, keywords.trades),
       include_performance   |-> any_kw(question_lower, keywords.performance),
       include_custodian     |-> any_kw(question_lower, keywords.custodian),
       include_security_type |-> any_kw(question_lower, keywords.security_type),
       include_top           |-> any_kw(question_lower, keywords.top),
       include_summary       |-> any_kw(question_lower, keywords.summary)]

\* Default-broadening that also counts the `top` flag as a topic.
broaden_unless_top(f) ==
  IF ~(f.include_holdings \/ f.include_trades \/ f.include_performance
       \/ f.include_custodian \/ f.include_security_type \/ f.include_top)
  THEN [f EXCEPT !.include_holdings = TRUE, !.include_trades = TRUE,
                 !.include_performance = TRUE, !.include_summary = TRUE]
  ELSE f

\* if not any([holdings, trades, performance, custodian, security_type]): ...
broaden(f) ==
  IF ~(f.include_holdings \/ f.include_trades \/ f.include_performance
       \/ f.include_custodian \/ f.include_security_type)
  THEN [f EXCEPT !.include_holdings = TRUE, !.include_trades = TRUE,
                 !.include_performance = TRUE, !.include_summary = TRUE]
  ELSE f

\* The flags the sections of the context are governed by.
include_flags(question) == broaden(keyword_flags(question))

\* One element of context_parts: the section it belongs to, what line it is,
\* and the values formatted into it.
Part(section, kind, data) == [section |-> section, kind |-> kind, data |-> data]

Label(section) == Part(section, "label", <<>>)

holdings_section(fund_name, include_top) ==
  <<Label("HOLDINGS")>>
  \o (IF Truthy(fund_name)
      THEN <<Part("HOLDINGS", "total_for_fund",
                  <<fund_name, get_holdings_count_by_fund(fund_name)[fund_name]>>)>>
           \o (IF include_top
               THEN <<Part("HOLDINGS", "top_for_fund", get_top_securities(fund_name, 10))>>
               ELSE <<>>)
      ELSE <<Part("HOLDINGS", "by_fund", get_holdings_count_by_fund(None))>>
           \o (IF include_top
               THEN <<Part("HOLDINGS", "top_all", get_top_securities(None, 10))>>
               ELSE <<>>))

trades_section(fund_name) ==
  <<Label("TRADES"),
    IF Truthy(fund_name)
    THEN Part("TRADES", "total_for_fund",
              <<fund_name, get_trades_count_by_fund(fund_name)[fund_name]>>)
    ELSE Part("TRADES", "by_fund", get_trades_count_by_fund(None))>>

performance_section(performance) ==
  <<Label("PERFORMANCE"), Part("PERFORMANCE", "table", performance)>>
  \o (IF Len(performance) > 0
      THEN <<Part("PERFORMANCE", "top_performer", performance[1]),
             Part("PERFORMANCE", "worst_performer", performance[Len(performance)])>>
      ELSE <<>>)

custodian_section ==
  <<Label("CUSTODIAN"), Part("CUSTODIAN", "summary", get_custodian_summary)>>

security_type_section ==
  LET type_summary == get_security_type_summary
  IN  <<Label("SECURITY_TYPE")>>
      \o (IF DOMAIN type_summary # {}
          THEN <<Part("SECURITY_TYPE", "summary", type_summary)>>
          ELSE <<>>)

\* The fund list without the cut to five.
AllOfThem(funds) == funds

\* overview['funds'][:5]
FirstFive(funds) == SubSeq(funds, 1, Min(5, Len(funds)))

fund_details_section(fund_name, include_summary, funds) ==
  <<Label("FUND_DETAILS")>>
  \o (IF Truthy(fund_name)
      THEN <<Part("FUND_DETAILS", "summary", get_fund_summary(fund_name))>>
      ELSE IF include_summary /\ ~Truthy(fund_name)
           THEN [i \in DOMAIN FirstFive(funds) |->
                   Part("FUND_DETAILS", "summary", get_fund_summary(FirstFive(funds)[i]))]
           ELSE <<>>)

\* _generate_context that appends the trades section before the holdings
\* section.
_generate_context_trades_first(question, performance) ==
  LET overview  == get_data_overview(performance)
      fund_name == _extract_fund_name(question)
      f         == include_flags(question)
  IN  <<Label("OVERVIEW"),
        Part("OVERVIEW", "total_funds", overview.total_funds),
        Part("OVERVIEW", "total_holdings", overview.total_holdings),
        Part("OVERVIEW", "total_trades", overview.total_trades),
        Part("OVERVIEW", "funds", overview.funds)>>
      \o (IF f.include_trades THEN trades_section(fund_name) ELSE <<>>)
      \o (IF f.include_holdings THEN holdings_section(fund_name, f.include_top) ELSE <<>>)
      \o (IF f.include_performance THEN performance_section(performance) ELSE <<>>)
      \o (IF f.include_custodian THEN custodian_section ELSE <<>>)
      \o (IF f.include_security_type THEN security_type_section ELSE <<>>)
      \o (IF Truthy(fund_name) \/ f.include_summary
          THEN fund_details_section(fund_name, f.include_summary, overview.funds)
          ELSE <<>>)

\* _generate_context, given the frame get_fund_performance() returns in this
\* process: the list context_parts before the final "\n".join.
_generate_context(question, performance) ==
  LET overview  == get_data_overview(performance)
      fund_name == _extract_fund_name(question)
      f         == include_flags(question)
  IN  <<Label("OVERVIEW"),
        Part("OVERVIEW", "total_funds", overview.total_funds),
        Part("OVERVIEW", "total_holdings", overview.total_holdings),
        Part("OVERVIEW", "total_trades", overview.total_trades),
        Part("OVERVIEW", "funds", overview.funds)>>
      \o (IF f.include_holdings THEN holdings_section(fund_name, f.include_top) ELSE <<>>)
      \o (IF f.include_trades THEN trades_section(fund_name) ELSE <<>>)
      \o (IF f.include_performance THEN performance_section(performance) ELSE <<>>)
      \o (IF f.include_custodian THEN custodian_section ELSE <<>>)
      \o (IF f.include_security_type THEN security_type_section ELSE <<>>)
      \o (IF Truthy(fund_name) \/ f.include_summary
          THEN fund_details_section(fund_name, f.include_summary, overview.funds)
          ELSE <<>>)

(***************************************************************************)
(* Questions                                                               *)
(***************************************************************************)

W_portfolio == <<"p", "o", "r", "t", "f", "o", "l", "i", "o">>
W_holdings == <<"h", "o", "l", "d", "i", "n", "g", "s">>
W_trades == <<"t", "r", "a", "d", "e", "s">>
W_pl == <<"P", "&", "L">>
W_banks == <<"b", "a", "n", "k", "s">>
W_types == <<"t", "y", "p", "e", "s">>
W_top == <<"T", "o", "p">>
W_summary == <<"s", "u", "m", "m", "a", "r", "y">>
W_alpha == <<"A", "L", "P", "H", "A">>
W_growth == <<"g", "r", "o", "w", "t", "h">>
W_growthplus == <<"G", "r", "o", "w", "t", "h", " ", "P", "l", "u", "s">>

Vocabulary ==
  {W_portfolio, W_holdings, W_trades, W_pl, W_banks, W_types, W_top, W_summary,
   W_alpha, W_growth, W_growthplus}

RECURSIVE JoinWords(_)
\* " ".join(words)
JoinWords(words) ==
  IF words = <<>> THEN <<>>
  ELSE IF Len(words) = 1 THEN words[1]
  ELSE words[1] \o <<" ">> \o JoinWords(Tail(words))

\* The questions asked: up to MaxWords words of the vocabulary, and "".
Questions == {JoinWords(ws) : ws \in SeqsUpTo(Vocabulary, MaxWords)}

\* The fund names passed to the per-fund operations: the universe and None.
FundArgs == Range(FundUniverse) \cup {None}

(***************************************************************************)
(* State                                                                   *)
(*   holdings_df, trades_df  the analyzer's tables (columns and rows)      *)
(*   chatbot                 the FundChatbot: api_key and llm              *)
(*   pc                      "idle", or "done" when a call has returned    *)
(*   ret                     the call that returned and what it returned   *)
(*   invocations             the llm.invoke calls the call made: the       *)
(*                           messages passed and what the backend did      *)
(*   messages                st.session_state.messages of the chat page    *)
(*   chatbot_initialized     st.session_state.chatbot_initialized: the     *)
(*                           page's analyzer has loaded its tables         *)
(***************************************************************************)

NoRet == [op |-> "none"]

Table(columns, rows) == [columns |-> columns, rows |-> Restrict(rows, columns)]

\* The caller takes the result; the next call can be made.
Return ==
  /\ pc = "done"
  /\ pc' = "idle"
  /\ ret' = NoRet
  /\ invocations' = <<>>
  /\ UNCHANGED <<holdings_df, trades_df, chatbot, session>>

Returns(r) ==
  /\ pc' = "done"
  /\ ret' = r
  /\ UNCHANGED <<holdings_df, trades_df, chatbot, invocations, session>>

(***************************************************************************)
(* The analyzer's operations, on every table within the bounds             *)
(***************************************************************************)

InitAnalyzer ==
  /\ \E rows \in SeqsUpTo(HoldingRows, MaxHoldings) :
        holdings_df = Table(HoldingsColumns, rows)
  /\ \E rows \in SeqsUpTo(TradeRows, MaxTrades) :
        trades_df = Table(TradesColumns, rows)
  /\ chatbot = NoChatbot
  /\ pc = "idle"
  /\ ret = NoRet
  /\ invocations = <<>>
  /\ messages = <<>>
  /\ chatbot_initialized = FALSE

GetAllFunds ==
  /\ pc = "idle"
  /\ Returns([op |-> "get_all_funds", value |-> get_all_funds])


GetHoldingsCountByFund ==
  /\ pc = "idle"
  /\ \E fund_name \in FundArgs :
        Returns([op |-> "get_holdings_count_by_fund", fund_name |-> fund_name,
                 value |-> get_holdings_count_by_fund(fund_name)])

GetTradesCountByFund ==
  /\ pc = "idle"
  /\ \E fund_name \in FundArgs :
        Returns([op |-> "get_trades_count_by_fund", fund_name |-> fund_name,
                 value |-> get_trades_count_by_fund(fund_name)])

GetFundPerformance ==
  /\ pc = "idle"
  /\ \E performance \in get_fund_performance :
        Returns([op |-> "get_fund_performance", value |-> performance])

GetFundSummary ==
  /\ pc = "idle"
  /\ \E fund_name \in Range(FundUniverse) :
        Returns([op |-> "get_fund_summary", fund_name |-> fund_name,
                 value |-> get_fund_summary(fund_name)])

GetTopSecurities ==
  /\ pc = "idle"
  /\ \E fund_name \in FundArgs, top_n \in 0..MaxTopN :
        Returns([op |-> "get_top_securities", fund_name |-> fund_name, top_n |-> top_n,
                 value |-> get_top_securities(fund_name, top_n)])

GetDataOverview ==
  /\ pc = "idle"
  /\ \E performance \in get_fund_performance :
        Returns([op |-> "get_data_overview", value |-> get_data_overview(performance)])

NextAnalyzer ==
  \/ GetAllFunds
  \/ GetHoldingsCountByFund
  \/ GetTradesCountByFund
  \/ GetFundPerformance
  \/ GetFundSummary
  \/ GetTopSecurities
  \/ GetDataOverview
  \/ Return

SpecAnalyzer == InitAnalyzer /\ [][NextAnalyzer]_vars

(***************************************************************************)
(* Fund-name detection and context composition                             *)
(***************************************************************************)

InitContext ==
  /\ \E n \in 0..MaxFunds :
        \E columns \in {HoldingsColumns, HoldingsColumns \ {"SecurityTypeName"}} :
           /\ holdings_df = Table(columns, WideHoldings(n))
           /\ trades_df = Table(TradesColumns, WideTrades(n))
  /\ chatbot = FundChatbot("None", FALSE)
  /\ pc = "idle"
  /\ ret = NoRet
  /\ invocations = <<>>
  /\ messages = <<>>
  /\ chatbot_initialized = FALSE

ExtractFundName ==
  /\ pc = "idle"
  /\ \E question \in Questions :
        Returns([op |-> "_extract_fund_name", question |-> question,
                 value |-> _extract_fund_name(question)])

\* The call returns the context; fund_name and flags are its locals at return.
GenerateContext ==
  /\ pc = "idle"
  /\ \E question \in Questions :
        \E performance \in get_fund_performance :
           Returns([op |-> "_generate_context", question |-> question,
                    fund_name |-> _extract_fund_name(question),
                    flags |-> include_flags(question),
                    value |-> _generate_context(question, performance)])

NextContext ==
  \/ ExtractFundName
  \/ GenerateContext
  \/ Return

SpecContext == InitContext /\ [][NextContext]_vars

(***************************************************************************)
(* The answer service                                                      *)
(***************************************************************************)

SystemPrompt == "You are a helpful and knowledgeable assistant ..."

\* What llm.invoke can do: return a response, or raise.
BackendOutcomes ==
  {[ok |-> TRUE, content |-> "response A"], [ok |-> TRUE, content |-> "response B"],
   [ok |-> FALSE, error |-> "APIConnectionError"],
   [ok |-> FALSE, error |-> "AuthenticationError"]}

Init ==
  /\ \E n \in 0..MaxServiceFunds :
        /\ holdings_df = Table(HoldingsColumns, WideHoldings(n))
        /\ trades_df = Table(TradesColumns, WideTrades(n))
  /\ chatbot = NoChatbot
  /\ pc = "idle"
  /\ ret = NoRet
  /\ invocations = <<>>
  /\ messages = <<>>
  /\ chatbot_initialized = FALSE

NewChatbot ==
  /\ pc = "idle"
  /\ \E api_key \in {"None", "gsk_key"}, groq_ok \in BOOLEAN :
        chatbot' = FundChatbot(api_key, groq_ok)
  /\ UNCHANGED <<holdings_df, trades_df, pc, ret, invocations, session>>

\* answer with a retry and a fallback: a failed call is made a second time and
\* a canned answer is returned instead of the failure.
answer_retry(question, performance, outcome) ==
  LET context  == _generate_context(question, performance)
      request  == <<[role |-> "system", content |-> SystemPrompt],
                    [role |-> "human", context |-> context, question |-> question]>>
      call     == [messages |-> request, outcome |-> outcome]
  IN  IF chatbot.llm = "None"
      THEN [invocations |-> <<>>, raised |-> TRUE, value |-> "AttributeError"]
      ELSE IF outcome.ok
      THEN [invocations |-> <<call>>, raised |-> FALSE, value |-> outcome.content]
      ELSE [invocations |-> <<call, call>>, raised |-> FALSE,
            value |-> "Sorry can not find the answer"]

\* answer(question), given the frame get_fund_performance() returns and what
\* the backend does if it is called: the llm.invoke calls made and the result.
\* The context is built first; in the try block self.llm.invoke on llm = None
\* raises AttributeError before any call; `raise e` passes on what was raised.
answer(question, performance, outcome) ==
  LET context  == _generate_context(question, performance)
      request  == <<[role |-> "system", content |-> SystemPrompt],
                    [role |-> "human", context |-> context, question |-> question]>>
  IN  IF chatbot.llm = "None"
      THEN [invocations |-> <<>>, raised |-> TRUE, value |-> "AttributeError"]
      ELSE [invocations |-> <<[messages |-> request, outcome |-> outcome]>>,
            raised      |-> ~outcome.ok,
            value       |-> IF outcome.ok THEN outcome.content ELSE outcome.error]

Answer ==
  /\ pc = "idle"
  /\ chatbot.constructed
  /\ \E question \in Questions :
       \E performance \in get_fund_performance :
          \E outcome \in BackendOutcomes :
             LET r == answer(question, performance, outcome)
             IN  /\ invocations' = r.invocations
                 /\ ret' = [op |-> "answer", question |-> question,
                            raised |-> r.raised, value |-> r.value]
  /\ pc' = "done"
  /\ UNCHANGED <<holdings_df, trades_df, chatbot, session>>

Next ==
  \/ NewChatbot
  \/ Answer
  \/ Return

Spec == Init /\ [][Next]_vars

(***************************************************************************)
(* The chat page: every action is one run of the page's script             *)
(***************************************************************************)

\* Bound of the chat history: prompts answered before the chat is cleared.
MaxTurns == 2

\* The prompts typed into st.chat_input (it never returns an empty one).
Prompts == {W_portfolio, W_alpha}

\* One entry of st.session_state.messages.
Message(role, content) == [role |-> role, content |-> content]

\* f"Error: {e}"
error_msg(e) == <<"Error: ", e>>

\* The state after the first run of the script: no chatbot, no messages, and
\* FundDataAnalyzer() either loaded the tables or raised (the session then
\* has no analyzer; the table variables hold empty tables).
InitUI ==
  /\ \/ /\ chatbot_initialized = TRUE
        /\ \E n \in 0..MaxServiceFunds :
              /\ holdings_df = Table(HoldingsColumns, WideHoldings(n))
              /\ trades_df = Table(TradesColumns, WideTrades(n))
     \/ /\ chatbot_initialized = FALSE
        /\ holdings_df = Table(HoldingsColumns, <<>>)
        /\ trades_df = Table(TradesColumns, <<>>)
  /\ chatbot = NoChatbot
  /\ messages = <<>>
  /\ pc = "idle"
  /\ ret = NoRet
  /\ invocations = <<>>

\* The top of every run: while "analyzer" is not in the session the load is
\* tried again, and succeeds or raises.
SessionLoads ==
  IF chatbot_initialized
  THEN {[ok |-> TRUE, holdings |-> holdings_df, trades |-> trades_df]}
  ELSE {[ok |-> FALSE, holdings |-> holdings_df, trades |-> trades_df]}
       \cup {[ok |-> TRUE, holdings |-> Table(HoldingsColumns, WideHoldings(n)),
              trades |-> Table(TradesColumns, WideTrades(n))] : n \in 0..MaxServiceFunds}

ApplyLoad(ld) ==
  /\ holdings_df' = ld.holdings
  /\ trades_df' = ld.trades
  /\ chatbot_initialized' = ld.ok

\* A run that did not call chatbot.answer.
ScriptRun(event) == [op |-> "script_run", event |-> event]

\* The run after a click on "Initialize Chatbot": with a key typed in, the
\* chatbot is constructed, unless the session has no analyzer (the attribute
\* error is caught and shown).
ClickInitialize ==
  /\ \E ld \in SessionLoads, api_key \in {"", "gsk_key"}, groq_ok \in BOOLEAN :
        /\ ApplyLoad(ld)
        /\ chatbot' = IF api_key # "" /\ ld.ok THEN FundChatbot(api_key, groq_ok)
                      ELSE chatbot
  /\ ret' = ScriptRun("initialize")
  /\ invocations' = <<>>
  /\ UNCHANGED <<pc, messages>>

\* The chat branch's handling of a prompt that raised no answer: the user
\* message and no assistant message.
append_exchange_drop_error(history, prompt, r) ==
  IF r.raised
  THEN Append(history, Message("user", prompt))
  ELSE history \o <<Message("user", prompt), Message("assistant", <<r.value>>)>>

\* The chat branch's handling of a prompt, given what chatbot.answer did: the
\* user message, then the response or the error message as assistant message.
append_exchange(history, prompt, r) ==
  history \o <<Message("user", prompt),
               Message("assistant", IF r.raised THEN error_msg(r.value) ELSE <<r.value>>)>>

\* The run after a prompt was submitted: st.stop() when the data is not
\* loaded, no chat input while the chatbot is None, else the prompt is
\* answered and both messages are appended.
SubmitPrompt ==
  /\ Len(messages) < 2 * MaxTurns
  /\ \E ld \in SessionLoads, prompt \in Prompts :
        /\ ApplyLoad(ld)
        /\ IF ~ld.ok \/ ~chatbot.constructed
           THEN /\ ret' = ScriptRun("prompt")
                /\ invocations' = <<>>
                /\ UNCHANGED messages
           ELSE \E performance \in get_fund_performance, outcome \in BackendOutcomes :
                   LET r == answer(prompt, performance, outcome)
                   IN  /\ messages' = append_exchange(messages, prompt, r)
                       /\ invocations' = r.invocations
                       /\ ret' = [op |-> "answer", question |-> prompt,
                                  raised |-> r.raised, value |-> r.value]
  /\ UNCHANGED <<pc, chatbot>>

\* The run after a click on "Clear Chat"; the button is there only in the chat
\* branch and while there are messages.
ClickClearChat ==
  /\ \E ld \in SessionLoads :
        /\ ApplyLoad(ld)
        /\ messages' = IF ld.ok /\ chatbot.constructed /\ messages # <<>>
                       THEN <<>> ELSE messages
  /\ ret' = ScriptRun("clear_chat")
  /\ invocations' = <<>>
  /\ UNCHANGED <<pc, chatbot>>

NextUI ==
  \/ ClickInitialize
  \/ SubmitPrompt
  \/ ClickClearChat

SpecUI == InitUI /\ [][NextUI]_vars

(***************************************************************************)
(* Properties                                                              *)
(***************************************************************************)

Answered == pc = "done" /\ ret.op = "answer"

\* C1: a chatbot constructed with api_key = None answers every question with
\* a ConfigError, the distinguished backend-unavailable outcome, and makes no
\* call to the completion backend.
C1_NoCredentialConfigError ==
  (Answered /\ chatbot.api_key = "None") =>
     /\ ret.value = "ConfigError"
     /\ invocations = <<>>

Composed == pc = "done" /\ ret.op = "_generate_context"

\* The distinct fund names of both tables.
KnownFunds == FundsOf(holdings_df) \cup FundsOf(trades_df)

SectionRank(section) ==
  CASE section = "OVERVIEW"      -> 1
    [] section = "HOLDINGS"      -> 2
    [] section = "TRADES"        -> 3
    [] section = "PERFORMANCE"   -> 4
    [] section = "CUSTODIAN"     -> 5
    [] section = "SECURITY_TYPE" -> 6
    [] section = "FUND_DETAILS"  -> 7

HasSection(ctx, section) == \E i \in DOMAIN ctx : ctx[i].section = section

\* C3: the context begins with the overview header, whose total fund count is
\* the number of distinct fund names of both tables; the sections follow in
\* the order Holdings, Trades, Performance, Custodian, Security-type,
\* Fund-details, each at most once; Holdings, Trades, Performance and
\* Custodian are present exactly when their flag (after broadening) is true.
C3_ContextOrder ==
  Composed =>
     LET ctx == ret.value
         f   == ret.flags
     IN  /\ Len(ctx) >= 5
         /\ ctx[1].section = "OVERVIEW" /\ ctx[1].kind = "label"
         /\ ctx[2].section = "OVERVIEW" /\ ctx[2].kind = "total_funds"
         /\ ctx[2].data = Cardinality(KnownFunds)
         /\ \A i, j \in DOMAIN ctx :
               i < j => SectionRank(ctx[i].section) <= SectionRank(ctx[j].section)
         /\ \A i, j \in DOMAIN ctx :
               (i < j /\ ctx[i].kind = "label" /\ ctx[j].kind = "label")
                  => ctx[i].section # ctx[j].section
         /\ HasSection(ctx, "HOLDINGS") <=> f.include_holdings
         /\ HasSection(ctx, "TRADES") <=> f.include_trades
         /\ HasSection(ctx, "PERFORMANCE") <=> f.include_performance
         /\ HasSection(ctx, "CUSTODIAN") <=> f.include_custodian

\* C3 witness: a context with the Holdings and Custodian sections and without
\* the Trades section, over tables with funds in both.
C3_Witness ==
  /\ Composed
  /\ HasSection(ret.value, "HOLDINGS")
  /\ HasSection(ret.value, "CUSTODIAN")
  /\ ~HasSection(ret.value, "TRADES")
  /\ Cardinality(KnownFunds) >= 3

\* Some keyword of the topic is a substring of the lower-cased question.
Matches(question, topic) ==
  \E kw \in Range(keywords[topic]) : Contains(kw, lower(question))

NoTopic(question) ==
  ~(\/ Matches(question, "holdings") \/ Matches(question, "trades")
    \/ Matches(question, "performance") \/ Matches(question, "custodian")
    \/ Matches(question, "security_type"))

\* C4: when no keyword of holdings, trades, performance, custodian or
\* security type matches (the empty question included, and whether or not top
\* or summary keywords match), holdings, trades, performance and summary are
\* forced true; when one of the five matches, every flag is as the keywords
\* set it. The call returns in both cases.
C4_DefaultBroadening ==
  Composed =>
     LET q == ret.question
         f == ret.flags
     IN  /\ f.include_custodian = Matches(q, "custodian")
         /\ f.include_security_type = Matches(q, "security_type")
         /\ f.include_top = Matches(q, "top")
         /\ IF NoTopic(q)
            THEN /\ f.include_holdings /\ f.include_trades
                 /\ f.include_performance /\ f.include_summary
            ELSE /\ f.include_holdings = Matches(q, "holdings")
                 /\ f.include_trades = Matches(q, "trades")
                 /\ f.include_performance = Matches(q, "performance")
                 /\ f.include_summary = Matches(q, "summary")

\* C4 witness: a question matching only a `top` keyword got the default view.
C4_Witness ==
  /\ Composed
  /\ ret.question = W_top
  /\ ret.flags.include_top
  /\ ret.flags.include_holdings /\ ret.flags.include_trades
  /\ ret.flags.include_performance /\ ret.flags.include_summary

\* C5: no part of the Security-type section, its label included, is in the
\* context unless the securityType flag is true and the holdings table has
\* the SecurityTypeName column.
C5_SecurityTypeNeedsColumn ==
  Composed =>
     (HasSection(ret.value, "SECURITY_TYPE") =>
        /\ ret.flags.include_security_type
        /\ "SecurityTypeName" \in holdings_df.columns)

\* C6: the Fund-details section is present exactly when a fund was detected
\* or the summary flag is true; with a detected fund it holds the summary of
\* that fund only; otherwise the summaries of the first min(5, number of
\* funds) funds of the sorted fund list, in that order, and no other.
C6_FundDetails ==
  Composed =>
     LET ctx       == ret.value
         detected  == ret.fund_name # None
         details   == SelectSeq(ctx, LAMBDA p : p.section = "FUND_DETAILS")
         summaries == SelectSeq(details, LAMBDA p : p.kind = "summary")
         funds     == sorted(KnownFunds)
     IN  /\ (details # <<>>) <=> (detected \/ ret.flags.include_summary)
         /\ detected =>
               /\ Len(summaries) = 1
               /\ summaries[1].data = get_fund_summary(ret.fund_name)
         /\ (~detected /\ ret.flags.include_summary) =>
               /\ Len(summaries) = Min(5, Len(funds))
               /\ \A i \in DOMAIN summaries :
                     summaries[i].data = get_fund_summary(funds[i])

\* C6 witness: no fund detected, summary flag true, more than five funds.
C6_Witness ==
  /\ Composed
  /\ ret.fund_name = None
  /\ ret.flags.include_summary
  /\ Cardinality(KnownFunds) > 5
  /\ HasSection(ret.value, "FUND_DETAILS")

\* The lower-cased name of the fund is a substring of the lower-cased question.
Mentions(question, fund) == Contains(lower(fund), lower(question))

IsPrefix(a, b) == Len(a) <= Len(b) /\ SubSeq(b, 1, Len(a)) = a

\* C9: _extract_fund_name returns the first fund, in lexicographic order,
\* whose lower-cased name is a substring of the lower-cased question, and
\* None exactly when there is none; of two matching funds of which one is a
\* prefix of the other, the shorter is returned.
C9_FirstMatchWins ==
  (pc = "done" /\ ret.op = "_extract_fund_name") =>
     LET matching == {f \in KnownFunds : Mentions(ret.question, f)}
     IN  /\ (ret.value = None) <=> (matching = {})
         /\ matching # {} =>
               /\ ret.value \in matching
               /\ \A g \in matching : g = ret.value \/ StrLess(ret.value, g)
               /\ \A a, b \in matching :
                     (a # b /\ IsPrefix(a, b)) => ret.value # b

\* C9 witness: Growth and Growth Plus both match and Growth is returned.
C9_Witness ==
  /\ pc = "done" /\ ret.op = "_extract_fund_name"
  /\ {F_Growth, F_GrowthPlus} \subseteq KnownFunds
  /\ Mentions(ret.question, F_GrowthPlus)
  /\ ret.value = F_Growth

\* C7: a fund without rows in a table has count 0 there, never a missing
\* key: the count by fund of an absent fund f is {f: 0}, and the per-fund
\* holdings and trades counts of the data overview have an entry for every
\* fund of the all-funds list, 0 for a fund absent from that table.
C7_AbsentFundCountsZero ==
  /\ (pc = "done" /\ ret.op = "get_holdings_count_by_fund" /\ Truthy(ret.fund_name)
        /\ ret.fund_name \notin FundsOf(holdings_df))
        => (DOMAIN ret.value = {ret.fund_name} /\ ret.value[ret.fund_name] = 0)
  /\ (pc = "done" /\ ret.op = "get_trades_count_by_fund" /\ Truthy(ret.fund_name)
        /\ ret.fund_name \notin FundsOf(trades_df))
        => (DOMAIN ret.value = {ret.fund_name} /\ ret.value[ret.fund_name] = 0)
  /\ (pc = "done" /\ ret.op = "get_data_overview") =>
        \A f \in Range(ret.value.funds) :
           /\ f \in DOMAIN ret.value.holdings_by_fund
           /\ f \in DOMAIN ret.value.trades_by_fund
           /\ f \notin FundsOf(holdings_df) => ret.value.holdings_by_fund[f] = 0
           /\ f \notin FundsOf(trades_df) => ret.value.trades_by_fund[f] = 0

\* The rows are the per-fund sums of the holdings, one row for each fund.
IsPerFundSums(p) ==
  /\ Len(p) = Cardinality(FundsOf(holdings_df))
  /\ {p[i].Fund : i \in DOMAIN p} = FundsOf(holdings_df)
  /\ \A i \in DOMAIN p :
        LET g == Filter(holdings_df.rows, p[i].Fund)
        IN  /\ p[i].Total_PL_YTD = SumCol(g, "PL_YTD")
            /\ p[i].Total_Market_Value = SumCol(g, "MV_Base")
            /\ p[i].Total_Quantity = SumCol(g, "Qty")

\* C8: get_fund_performance returns the per-fund sums, one row per fund of
\* holdings, in descending order of total PL_YTD, funds of equal total in
\* group order (the sorted order of the names); the top performer is the
\* first and the worst performer the last row, the same row for one fund.
C8_PerformanceStableDescending ==
  /\ (pc = "done" /\ ret.op = "get_fund_performance") =>
        LET p == ret.value
        IN  /\ IsPerFundSums(p)
            /\ \A i, j \in DOMAIN p :
                  i < j => \/ p[i].Total_PL_YTD > p[j].Total_PL_YTD
                           \/ /\ p[i].Total_PL_YTD = p[j].Total_PL_YTD
                              /\ StrLess(p[i].Fund, p[j].Fund)
  /\ (pc = "done" /\ ret.op = "get_data_overview") =>
        LET p == ret.value.performance_summary
        IN  Len(p) > 0 =>
               /\ ret.value.top_performer = <<p[1]>>
               /\ ret.value.worst_performer = <<p[Len(p)]>>
               /\ Len(p) = 1 => ret.value.top_performer = ret.value.worst_performer

\* C10: get_all_funds returns exactly the fund names of holdings and of
\* trades, in strictly ascending lexicographic order.
C10_AllFundsSortedUnion ==
  (pc = "done" /\ ret.op = "get_all_funds") =>
     /\ Range(ret.value) = FundsOf(holdings_df) \cup FundsOf(trades_df)
     /\ \A i, j \in DOMAIN ret.value : i < j => StrLess(ret.value[i], ret.value[j])

\* C10 witness: a fund in both tables, a fund only in holdings, a fund only
\* in trades.
C10_Witness ==
  /\ pc = "done" /\ ret.op = "get_all_funds"
  /\ FundsOf(holdings_df) \cap FundsOf(trades_df) # {}
  /\ FundsOf(holdings_df) \ FundsOf(trades_df) # {}
  /\ FundsOf(trades_df) \ FundsOf(holdings_df) # {}
  /\ Len(ret.value) >= 3

\* The place of candidate row i in descending MV_Base order, rows of equal
\* MV_Base in row order.
PlaceOf(cand, i) ==
  1 + Cardinality({j \in DOMAIN cand :
                     \/ cand[j].MV_Base > cand[i].MV_Base
                     \/ cand[j].MV_Base = cand[i].MV_Base /\ j < i})

\* C11: get_top_securities(fund_name, n) returns min(n, number of candidate
\* rows) rows, in descending order of market value with rows of equal value
\* in row order, none smaller in value than a candidate row left out; the
\* candidates are the fund's holdings when a fund is given (none, and no
\* error, for an unknown fund), else all holdings.
C11_TopSecurities ==
  (pc = "done" /\ ret.op = "get_top_securities") =>
     LET cand == IF Truthy(ret.fund_name)
                 THEN Filter(holdings_df.rows, ret.fund_name)
                 ELSE holdings_df.rows
         top  == ret.value
     IN  /\ Len(top) = Min(ret.top_n, Len(cand))
         /\ \A k, l \in DOMAIN top : k < l => top[k].MV_Base >= top[l].MV_Base
         /\ \A i \in DOMAIN cand :
               IF PlaceOf(cand, i) <= ret.top_n
               THEN top[PlaceOf(cand, i)] = [c \in TopColumns |-> cand[i][c]]
               ELSE \A k \in DOMAIN top : top[k].MV_Base >= cand[i].MV_Base
         /\ (Truthy(ret.fund_name) /\ ret.fund_name \notin FundsOf(holdings_df))
               => top = <<>>

\* C11 witness: a fund was given, it has more rows than asked for, two of
\* them of equal market value, and the table holds another fund's row too.
C11_Witness ==
  /\ pc = "done" /\ ret.op = "get_top_securities"
  /\ Truthy(ret.fund_name)
  /\ ret.top_n >= 1
  /\ Len(ret.value) = ret.top_n
  /\ Len(Filter(holdings_df.rows, ret.fund_name)) > ret.top_n
  /\ \E i, j \in DOMAIN Filter(holdings_df.rows, ret.fund_name) :
        /\ i < j
        /\ Filter(holdings_df.rows, ret.fund_name)[i].MV_Base
              = Filter(holdings_df.rows, ret.fund_name)[j].MV_Base
  /\ Len(holdings_df.rows) > Len(Filter(holdings_df.rows, ret.fund_name))

\* The history is a sequence of (user, assistant) pairs.
C12_Paired ==
  /\ Len(messages) % 2 = 0
  /\ \A i \in DOMAIN messages :
        messages[i].role = IF i % 2 = 1 THEN "user" ELSE "assistant"

\* chatbot.answer was called, and a backend call made, only in a session with
\* loaded data and a chatbot.
C12_AnswerGuarded ==
  (ret.op = "answer" \/ invocations # <<>>) =>
     (chatbot_initialized /\ chatbot.constructed)

\* This run appended the prompt and then the answer, or "Error: " and the
\* failure when answer raised, and nothing else.
C12_Appended ==
  /\ ret'.op = "answer"
  /\ messages' = messages \o
        <<Message("user", ret'.question),
          Message("assistant", IF ret'.raised THEN <<"Error: ", ret'.value>>
                               ELSE <<ret'.value>>)>>

C12_Step ==
  /\ ret'.op = "answer" => C12_Appended
  /\ messages' # messages =>
        \/ C12_Appended
        \/ ret'.op = "script_run" /\ ret'.event = "clear_chat" /\ messages' = <<>>
  /\ (ret'.op = "script_run" /\ ret'.event = "clear_chat"
        /\ chatbot_initialized /\ chatbot.constructed)
        => messages' = <<>>

\* C12: the chat history is always a sequence of (user, assistant) pairs;
\* a run that answers a prompt appends exactly the user message with the
\* prompt and one assistant message, the answer or 'Error: <failure>' when
\* answer raised; the history changes in no other way than by a Clear Chat
\* run, which empties it; chatbot.answer is never called in a session without
\* a chatbot or whose data failed to load.
C12_ChatHistory ==
  /\ [](C12_Paired /\ C12_AnswerGuarded)
  /\ [][C12_Step]_vars

\* C12 witness: two prompts were answered, the first with a failure shown as
\* 'Error: ...', the second with a response.
C12_Witness ==
  /\ ret.op = "answer"
  /\ Len(messages) = 4
  /\ messages[2].content[1] = "Error: "
  /\ messages[4].content = <<ret.value>>
  /\ ~ret.raised

=============================================================================
